---- MODULE Spec2Model ----
(***************************************************************************)
(* Model of the lock-in demodulation core, class Lockin2 (src/lockin2.cpp). *)
(*                                                                         *)
(* Reals (qreal) are fixed-point integers with three decimals: 1.0 is      *)
(* Scale, seconds and radians are held in thousandths.  A qreal that can   *)
(* be the result of a division is a record [nan, v].                       *)
(***************************************************************************)
EXTENDS Integers, Sequences, FiniteSets

VARIABLES
    _audioInput,        \* 0 (null pointer) or 1 (a live QAudioInput)
    _outputPeriod,
    _integrationTime,
    _vumeterTime,
    _phase,
    _timeValue,
    _sampleIntegration,
    _sampleVumeter,
    _data,              \* QList<QPair<qreal,qreal>>: the integration window
    _vumeterData,       \* QList<QPair<qreal,qreal>>: the monitor snapshot
    _vumeterMutex,      \* "free", "producer" or "reader"
    _xValue,
    _yValue,
    pc,                 \* position of interpretInput: "idle" or "rebuild"
    leftSignal,         \* locals of interpretInput that live across the lock
    chopperSinCos,
    readerPc,           \* position of a vumeterData call: "idle", "lock", "copy"
    readerRet,          \* the list the last vumeterData call returned
    op,                 \* what the last call of the owner thread reported: its return
                        \* value and the qDebug line (function, text) it printed
    newValues,          \* the events the last interpretInput run emitted
    dataValid,          \* history: per window entry, which branch of line 190 made it
    sampleRate,         \* history: format.sampleRate() of the last successful start
    nCycles,            \* history: interpretInput runs since the last successful start
    nEvents,            \* history: events emitted since the last successful start
    nSessions,          \* history: successful starts so far
    nRuns,              \* history: interpretInput runs so far
    nReads,             \* history: vumeterData calls so far
    parseSignal,        \* a call of parseChopperSignal on its own: its arguments,
    parseAvg,
    parsePhase,
    parseOut,           \* the list it returned,
    parseDone           \* and whether it has returned

vars == <<_audioInput, _outputPeriod, _integrationTime, _vumeterTime, _phase,
          _timeValue, _sampleIntegration, _sampleVumeter, _data, _vumeterData,
          _vumeterMutex, _xValue, _yValue, pc, leftSignal, chopperSinCos,
          readerPc, readerRet, op, newValues, dataValid, sampleRate, nCycles,
          nEvents, nSessions, nRuns, nReads, parseSignal, parseAvg, parsePhase,
          parseOut, parseDone>>

config == <<_outputPeriod, _integrationTime, _vumeterTime, _phase>>
derived == <<_sampleIntegration, _sampleVumeter, _timeValue>>
window == <<_data, dataValid>>
lastPair == <<_xValue, _yValue>>
producerLocals == <<pc, leftSignal, chopperSinCos>>
reader == <<readerPc, readerRet>>
history == <<sampleRate, nCycles, nEvents, nSessions, nRuns, nReads>>
parseCall == <<parseSignal, parseAvg, parsePhase, parseOut, parseDone>>

(***************************************************************************)
(* Bounds of the model.                                                    *)
(***************************************************************************)
MaxBurst == 4       \* sample pairs in one burst
MaxRuns == 2        \* interpretInput runs
MaxSessions == 2    \* successful starts
MaxReads == 2       \* vumeterData calls
MaxSignal == 6      \* samples in a signal handed to parseChopperSignal on its own

(***************************************************************************)
(* Fixed-point reals.                                                      *)
(***************************************************************************)
Scale == 1000
Pi == 3142
HalfPi == 1571
M_2_PI == 637                   \* <cmath>: 2/pi = 0.6366...
IgnoreSinCos == 2 * Scale       \* 2.0, the marker of parseChopperSignal
IgnoreXY == Scale \div 2        \* 0.5, the marker of interpretInput

Real(v) == [nan |-> FALSE, v |-> v]
NaN == [nan |-> TRUE, v |-> 0]

\* x / n for qreal x and a qreal count n; 0.0 / 0.0 is NaN (IEEE 754)
Divide(x, n) == IF n = 0 THEN NaN ELSE Real(x \div n)

\* sin of a in [0, HalfPi], by its Taylor series
SinFirstQuadrant(a) ==
    LET a2 == (a * a) \div Scale
        t3 == (a2 * a) \div (6 * Scale)
        t5 == (t3 * a2) \div (20 * Scale)
        t7 == (t5 * a2) \div (42 * Scale)
    IN  a - t3 + t5 - t7

\* std::sin
Sin(angle) ==
    LET r == angle % (2 * Pi)
    IN  IF r <= HalfPi THEN SinFirstQuadrant(r)
        ELSE IF r <= Pi THEN SinFirstQuadrant(Pi - r)
        ELSE IF r <= Pi + HalfPi THEN -SinFirstQuadrant(r - Pi)
        ELSE -SinFirstQuadrant(2 * Pi - r)

\* std::cos
Cos(angle) == Sin(angle + HalfPi)

(***************************************************************************)
(* Inputs.                                                                 *)
(***************************************************************************)
OutputPeriods == {500, 1000}
IntegrationTimes == {3000, 2000}
VumeterTimes == {20, 2000}
Phases == {0, 252}
SampleRates == {1}
Measurements == {2}             \* left channel
References == {0, 1}            \* right channel (chopper)
Uninit == {-1, 0}               \* what an uninitialized member may hold

SamplePairs == Measurements \X References

RECURSIVE SeqsUpTo(_, _)
SeqsUpTo(S, n) ==
    IF n = 0 THEN {<<>>}
    ELSE LET shorter == SeqsUpTo(S, n - 1)
         IN  shorter \cup {Append(s, e) : s \in {t \in shorter : Len(t) = n - 1}, e \in S}

Bursts == SeqsUpTo(SamplePairs, MaxBurst)

\* the arguments of a call of parseChopperSignal on its own: signal.first() needs
\* a signal that is not empty
Signals == SeqsUpTo(References, MaxSignal) \ {<<>>}
Thresholds == {0, 1}

\* QAudioFormat, as far as start reads it
PcmFormat(rate) ==
    [valid |-> TRUE, codec |-> "audio/pcm", channelCount |-> 2,
     sampleType |-> "UnSignedInt", sampleSize |-> 32, sampleRate |-> rate]

Formats ==
    UNION {
        { PcmFormat(r),
          [PcmFormat(r) EXCEPT !.valid = FALSE],
          [PcmFormat(r) EXCEPT !.codec = "audio/x-raw"],
          [PcmFormat(r) EXCEPT !.channelCount = 1],
          [PcmFormat(r) EXCEPT !.sampleType = "SignedInt"],
          [PcmFormat(r) EXCEPT !.sampleSize = 16] } : r \in SampleRates }

(***************************************************************************)
(* Session controller.                                                     *)
(***************************************************************************)
isFormatSupported_anySize(format) ==
    IF format.codec # "audio/pcm" THEN FALSE
    ELSE IF format.channelCount # 2 THEN FALSE
    ELSE IF format.sampleType # "UnSignedInt" THEN FALSE
    ELSE TRUE

isFormatSupported(format) ==
    IF format.codec # "audio/pcm" THEN FALSE
    ELSE IF format.channelCount # 2 THEN FALSE
    ELSE IF format.sampleType # "UnSignedInt" THEN FALSE
    ELSE IF format.sampleSize # 32 THEN FALSE
    ELSE TRUE

\* a call that printed the qDebug line `name: msg` and returned ret
Called(name, ret, msg) == [name |-> name, ret |-> ret, msg |-> msg]

\* a call that printed nothing (and returned true, when it returns a value)
Quiet == [name |-> "", ret |-> TRUE, msg |-> ""]

\* a call made by the thread that owns the object, between two handler runs
OwnerIdle == pc = "idle"

\* the object the constructor leaves (lines 5-19)
Constructed ==
    /\ _audioInput = 0
    /\ _outputPeriod = 500
    /\ _vumeterTime = 20
    /\ _integrationTime = 3000
    /\ _phase = 0
    /\ \E g \in Uninit :
           /\ _timeValue = g
           /\ _sampleIntegration = g
           /\ _sampleVumeter = g
           /\ _xValue = Real(g)
           /\ _yValue = Real(g)
    /\ _data = <<>>
    /\ _vumeterData = <<>>
    /\ _vumeterMutex = "free"
    /\ pc = "idle"
    /\ leftSignal = <<>>
    /\ chopperSinCos = <<>>
    /\ readerPc = "idle"
    /\ readerRet = <<>>
    /\ op = Quiet
    /\ newValues = <<>>
    /\ dataValid = <<>>
    /\ sampleRate = 0
    /\ nCycles = 0
    /\ nEvents = 0
    /\ nSessions = 0
    /\ nRuns = 0
    /\ nReads = 0

\* no call of parseChopperSignal on its own
Init ==
    /\ Constructed
    /\ parseSignal = <<>>
    /\ parseAvg = 0
    /\ parsePhase = 0
    /\ parseOut = <<>>
    /\ parseDone = FALSE

InitialTime_trailingEdge == -_integrationTime

\* line 67: the time cursor a session starts from
InitialTime == -(_integrationTime \div 2)

\* a call of start that returns false at line 46, 51, 56 or 78
StartRefused(msg) ==
    /\ op' = Called("start", FALSE, msg)
    /\ UNCHANGED <<_audioInput, derived, history>>

\* lines 49-82: start on a lockin that is not running
StartStopped(audioDeviceSupports, format) ==
    IF ~format.valid THEN StartRefused("format not valid")
    ELSE IF ~isFormatSupported(format) THEN StartRefused("format not supported for lockin2")
    ELSE IF audioDeviceSupports THEN
        /\ nSessions < MaxSessions
        /\ _audioInput' = 1
        /\ _timeValue' = InitialTime
        /\ _sampleIntegration' = (format.sampleRate * _integrationTime) \div Scale
        /\ _sampleVumeter' = (format.sampleRate * _vumeterTime) \div Scale
        /\ sampleRate' = format.sampleRate
        /\ nCycles' = 0
        /\ nEvents' = 0
        /\ nSessions' = nSessions + 1
        /\ op' = Quiet
        /\ UNCHANGED <<nRuns, nReads>>
    ELSE StartRefused("format not supported, can't start")

start_restarts(audioDeviceSupports, format) ==
    /\ OwnerIdle
    /\ StartStopped(audioDeviceSupports, format)
    /\ UNCHANGED <<config, window, _vumeterData, _vumeterMutex, lastPair,
                   producerLocals, reader, parseCall, newValues>>

start(audioDeviceSupports, format) ==
    /\ OwnerIdle
    /\ IF _audioInput # 0
       THEN StartRefused("lockin is already running, please stop is before start")
       ELSE StartStopped(audioDeviceSupports, format)
    /\ UNCHANGED <<config, window, _vumeterData, _vumeterMutex, lastPair,
                   producerLocals, reader, parseCall, newValues>>

setOutputPeriod_unguarded(outputPeriod) ==
    /\ OwnerIdle
    /\ _outputPeriod' = outputPeriod
    /\ op' = Quiet
    /\ UNCHANGED <<_audioInput, _integrationTime, _vumeterTime, _phase, derived,
                   window, _vumeterData, _vumeterMutex, lastPair, producerLocals,
                   reader, parseCall, newValues, history>>

setOutputPeriod(outputPeriod) ==
    /\ OwnerIdle
    /\ IF _audioInput = 0 THEN
           /\ _outputPeriod' = outputPeriod
           /\ op' = Quiet
       ELSE
           /\ op' = Called("setOutputPeriod", TRUE, "lockin is running")
           /\ UNCHANGED _outputPeriod
    /\ UNCHANGED <<_audioInput, _integrationTime, _vumeterTime, _phase, derived,
                   window, _vumeterData, _vumeterMutex, lastPair, producerLocals,
                   reader, parseCall, newValues, history>>

setIntegrationTime(integrationTime) ==
    /\ OwnerIdle
    /\ IF _audioInput = 0 THEN
           /\ _integrationTime' = integrationTime
           /\ op' = Quiet
       ELSE
           /\ op' = Called("setIntegrationTime", TRUE, "lockin is running")
           /\ UNCHANGED _integrationTime
    /\ UNCHANGED <<_audioInput, _outputPeriod, _vumeterTime, _phase, derived,
                   window, _vumeterData, _vumeterMutex, lastPair, producerLocals,
                   reader, parseCall, newValues, history>>

setVumeterTime(vumeterTime) ==
    /\ OwnerIdle
    /\ IF _audioInput = 0 THEN
           /\ _vumeterTime' = vumeterTime
           /\ op' = Quiet
       ELSE
           /\ op' = Called("setVumeterTime", TRUE, "lockin is running")
           /\ UNCHANGED _vumeterTime
    /\ UNCHANGED <<_audioInput, _outputPeriod, _integrationTime, _phase, derived,
                   window, _vumeterData, _vumeterMutex, lastPair, producerLocals,
                   reader, parseCall, newValues, history>>

setPhase(phase) ==
    /\ OwnerIdle
    /\ _phase' = phase
    /\ op' = Quiet
    /\ UNCHANGED <<_audioInput, _outputPeriod, _integrationTime, _vumeterTime,
                   derived, window, _vumeterData, _vumeterMutex, lastPair,
                   producerLocals, reader, parseCall, newValues, history>>

stop_keepsInput ==
    /\ OwnerIdle
    /\ IF _audioInput # 0 THEN
           /\ op' = Quiet
           /\ UNCHANGED _audioInput
       ELSE
           /\ op' = Called("stop", TRUE, "lockin is not running")
           /\ UNCHANGED _audioInput
    /\ UNCHANGED <<config, derived, window, _vumeterData, _vumeterMutex, lastPair,
                   producerLocals, reader, parseCall, newValues, history>>

stop ==
    /\ OwnerIdle
    /\ IF _audioInput # 0 THEN
           /\ _audioInput' = 0
           /\ op' = Quiet
       ELSE
           /\ op' = Called("stop", TRUE, "lockin is not running")
           /\ UNCHANGED _audioInput
    /\ UNCHANGED <<config, derived, window, _vumeterData, _vumeterMutex, lastPair,
                   producerLocals, reader, parseCall, newValues, history>>

(***************************************************************************)
(* Reference analyzer.                                                     *)
(***************************************************************************)
Angle(i, periodSize, phase) == (M_2_PI * i) \div periodSize + phase

RunEntries_neverIgnored(ignore, periodSize, phase) ==
    [i \in 1..periodSize |->
        <<Sin(Angle(i - 1, periodSize, phase)), Cos(Angle(i - 1, periodSize, phase))>>]

\* the entries one closed run appends to out (lines 270-281)
RunEntries(ignore, periodSize, phase) ==
    IF ignore
    THEN [i \in 1..periodSize |-> <<IgnoreSinCos, IgnoreSinCos>>]
    ELSE [i \in 1..periodSize |->
              <<Sin(Angle(i - 1, periodSize, phase)), Cos(Angle(i - 1, periodSize, phase))>>]

\* the for loop of parseChopperSignal from index i on (Sequences count from 1)
RECURSIVE ParseLoop(_, _, _, _, _, _, _, _)
ParseLoop(signal, avg, phase, i, out, ignore, wasBiggerThanAvg, periodSize) ==
    IF i > Len(signal) THEN out
    ELSE LET isBiggerThanAvg == signal[i] > avg
         IN  IF isBiggerThanAvg /\ ~wasBiggerThanAvg
             THEN ParseLoop(signal, avg, phase, i + 1,
                            out \o RunEntries(ignore, periodSize + 1, phase),
                            FALSE, isBiggerThanAvg, 0)
             ELSE ParseLoop(signal, avg, phase, i + 1, out, ignore,
                            isBiggerThanAvg, periodSize + 1)

parseChopperSignal(signal, avg, phase) ==
    LET out == ParseLoop(signal, avg, phase, 1, <<>>, TRUE, signal[1] > avg, 0)
    IN  out \o [i \in 1..(Len(signal) - Len(out)) |-> <<IgnoreSinCos, IgnoreSinCos>>]

(***************************************************************************)
(* Demodulator, integration window, monitor snapshot.                      *)
(***************************************************************************)
ToReal(n) == n * Scale
Mul(a, b) == (a * b) \div Scale

RECURSIVE SumSeq(_)
SumSeq(s) == IF s = <<>> THEN 0 ELSE Head(s) + SumSeq(Tail(s))

\* lines 188-198: the pairs one burst appends to _data
Demodulate(left, sinCos) ==
    [i \in 1..Len(left) |->
        IF sinCos[i][1] # IgnoreSinCos
        THEN <<Mul(sinCos[i][1], left[i]), Mul(sinCos[i][2], left[i])>>
        ELSE <<IgnoreXY, IgnoreXY>>]

\* history: the branch of line 190 each of these pairs took
ValidFlags(sinCos) == [i \in 1..Len(sinCos) |-> sinCos[i][1] # IgnoreSinCos]

RECURSIVE VumeterLoop_appends(_, _, _, _, _)
VumeterLoop_appends(i, left, sinCos, capacity, vumeter) ==
    IF i < 1 THEN vumeter
    ELSE IF Len(vumeter) >= capacity THEN vumeter
    ELSE VumeterLoop_appends(i - 1, left, sinCos, capacity,
                             IF sinCos[i][1] # IgnoreSinCos
                             THEN Append(vumeter, <<left[i], sinCos[i][1]>>)
                             ELSE vumeter)

\* lines 203-210, from index i down (Sequences count from 1)
RECURSIVE VumeterLoop(_, _, _, _, _)
VumeterLoop(i, left, sinCos, capacity, vumeter) ==
    IF i < 1 THEN vumeter
    ELSE IF Len(vumeter) >= capacity THEN vumeter
    ELSE VumeterLoop(i - 1, left, sinCos, capacity,
                     IF sinCos[i][1] # IgnoreSinCos
                     THEN <<<<left[i], sinCos[i][1]>>>> \o vumeter
                     ELSE vumeter)

RemoveExcess_newest(list, capacity) ==
    IF Len(list) > capacity
    THEN SubSeq(list, 1, capacity)
    ELSE list

RemoveExcess_all(list, capacity) ==
    IF Len(list) > capacity
    THEN <<>>
    ELSE list

\* lines 226-227
RemoveExcess(list, capacity) ==
    IF Len(list) > capacity
    THEN SubSeq(list, Len(list) - capacity + 1, Len(list))
    ELSE list

\* line 235: the entries the average counts
Counted(pair) == pair[1] # IgnoreXY /\ pair[2] # IgnoreXY

CountedEntries(data) == SelectSeq(data, Counted)

\* lines 229-242
Average(data, k) ==
    LET counted == CountedEntries(data)
    IN  Divide(SumSeq([i \in 1..Len(counted) |-> counted[i][k]]), Len(counted))

NotEnough_offByOne(data) == Len(data) <= _sampleIntegration

\* line 220: not yet enough entries to average
NotEnough(data) == Len(data) < _sampleIntegration

\* lines 220-248: the end of interpretInput, on the window `data` at time `time`
Integrate(data, valid, time) ==
    IF NotEnough(data) THEN
        /\ _data' = data
        /\ dataValid' = valid
        /\ newValues' = <<>>
        /\ UNCHANGED <<lastPair, nEvents>>
    ELSE
        LET kept == RemoveExcess(data, _sampleIntegration)
            x == Average(kept, 1)
            y == Average(kept, 2)
        IN  /\ _data' = kept
            /\ dataValid' = RemoveExcess(valid, _sampleIntegration)
            /\ _xValue' = x
            /\ _yValue' = y
            /\ newValues' = <<[time |-> time, x |-> x, y |-> y]>>
            /\ nEvents' = nEvents + 1

NothingNew_clearsSnapshot ==
    /\ op' = Called("interpretInput", TRUE, "nothing new...")
    /\ newValues' = <<>>
    /\ _vumeterData' = <<>>
    /\ UNCHANGED <<window, _vumeterMutex, lastPair, producerLocals, nEvents>>

\* lines 178-181: no sample pair was read
NothingNew ==
    /\ op' = Called("interpretInput", TRUE, "nothing new...")
    /\ newValues' = <<>>
    /\ UNCHANGED <<window, _vumeterData, _vumeterMutex, lastPair, producerLocals,
                   nEvents>>

tryLock_always == TRUE

\* line 201: QMutex::tryLock succeeds when no thread holds the mutex
tryLock == _vumeterMutex = "free"

\* interpretInput, from its entry to the return at line 180, or to the tryLock
\* of line 201; when the lock is not free, on to its end
interpretInput(burst) ==
    /\ OwnerIdle
    /\ _audioInput # 0
    /\ nRuns < MaxRuns
    /\ nRuns' = nRuns + 1
    /\ nCycles' = nCycles + 1
    /\ _timeValue' = _timeValue + _outputPeriod
    /\ LET left == [i \in 1..Len(burst) |-> ToReal(burst[i][1])]
           chopperSignal == [i \in 1..Len(burst) |-> burst[i][2]]
           newSamplesCount == Len(burst)
       IN  IF newSamplesCount = 0 THEN NothingNew
           ELSE
               LET avgRight == SumSeq(chopperSignal) \div newSamplesCount
                   sinCos == parseChopperSignal(chopperSignal, avgRight, _phase)
                   data == _data \o Demodulate(left, sinCos)
                   valid == dataValid \o ValidFlags(sinCos)
               IN  IF tryLock THEN
                       /\ _vumeterMutex' = "producer"
                       /\ _vumeterData' = <<>>
                       /\ pc' = "rebuild"
                       /\ leftSignal' = left
                       /\ chopperSinCos' = sinCos
                       /\ _data' = data
                       /\ dataValid' = valid
                       /\ newValues' = <<>>
                       /\ UNCHANGED <<op, lastPair, nEvents>>
                   ELSE
                       /\ op' = Called("interpretInput", TRUE,
                                       "the view Mutex is locked")
                       /\ Integrate(data, valid, _timeValue')
                       /\ UNCHANGED <<_vumeterData, _vumeterMutex, producerLocals>>
    /\ UNCHANGED <<_audioInput, config, _sampleIntegration, _sampleVumeter, reader,
                   parseCall,
                   sampleRate, nSessions, nReads>>

rebuild_keepsLock ==
    /\ pc = "rebuild"
    /\ _vumeterData' = VumeterLoop(Len(leftSignal), leftSignal, chopperSinCos,
                                   _sampleVumeter, _vumeterData)
    /\ Integrate(_data, dataValid, _timeValue)
    /\ op' = Quiet
    /\ pc' = "idle"
    /\ leftSignal' = <<>>
    /\ chopperSinCos' = <<>>
    /\ UNCHANGED <<_audioInput, config, derived, reader, parseCall, sampleRate, nCycles,
                   nSessions, nRuns, nReads, _vumeterMutex>>

\* interpretInput, from line 203 (the lock is held) to its end
rebuild ==
    /\ pc = "rebuild"
    /\ _vumeterData' = VumeterLoop(Len(leftSignal), leftSignal, chopperSinCos,
                                   _sampleVumeter, _vumeterData)
    /\ _vumeterMutex' = "free"
    /\ Integrate(_data, dataValid, _timeValue)
    /\ op' = Quiet
    /\ pc' = "idle"
    /\ leftSignal' = <<>>
    /\ chopperSinCos' = <<>>
    /\ UNCHANGED <<_audioInput, config, derived, reader, parseCall, sampleRate, nCycles,
                   nSessions, nRuns, nReads>>

(***************************************************************************)
(* The reader thread: vumeterData().                                       *)
(***************************************************************************)
vumeterDataCall ==
    /\ readerPc = "idle"
    /\ nReads < MaxReads
    /\ nReads' = nReads + 1
    /\ readerPc' = "lock"
    /\ UNCHANGED <<_audioInput, config, derived, window, _vumeterData,
                   _vumeterMutex, lastPair, producerLocals, readerRet, op,
                   newValues, sampleRate, nCycles, nEvents, nSessions, nRuns,
                   parseCall>>

vumeterDataLock_noWait ==
    /\ readerPc = "lock"
    /\ _vumeterMutex' = "reader"
    /\ readerPc' = "copy"
    /\ UNCHANGED <<_audioInput, config, derived, window, _vumeterData, lastPair,
                   producerLocals, readerRet, op, newValues, history, parseCall>>

\* line 126: QMutex::lock blocks until the mutex is free
vumeterDataLock ==
    /\ readerPc = "lock"
    /\ _vumeterMutex = "free"
    /\ _vumeterMutex' = "reader"
    /\ readerPc' = "copy"
    /\ UNCHANGED <<_audioInput, config, derived, window, _vumeterData, lastPair,
                   producerLocals, readerRet, op, newValues, history, parseCall>>

\* lines 127-129
vumeterDataReturn ==
    /\ readerPc = "copy"
    /\ readerRet' = _vumeterData
    /\ _vumeterMutex' = "free"
    /\ readerPc' = "idle"
    /\ UNCHANGED <<_audioInput, config, derived, window, _vumeterData, lastPair,
                   producerLocals, op, newValues, history, parseCall>>

Next ==
    \/ \E supports \in BOOLEAN, format \in Formats : start(supports, format)
    \/ \E outputPeriod \in OutputPeriods : setOutputPeriod(outputPeriod)
    \/ \E integrationTime \in IntegrationTimes : setIntegrationTime(integrationTime)
    \/ \E vumeterTime \in VumeterTimes : setVumeterTime(vumeterTime)
    \/ \E phase \in Phases : setPhase(phase)
    \/ stop
    \/ \E burst \in Bursts : interpretInput(burst)
    \/ rebuild

\* the owner thread alone: no other thread calls vumeterData
Spec == Init /\ [][Next]_vars

(***************************************************************************)
(* The owner thread and a reader thread: the monitor time is set, a session *)
(* is started with a format the device supports and fed bursts, while      *)
(* another thread calls vumeterData.                                       *)
(***************************************************************************)
ReaderVumeterTimes == {1000, 2000}

NextReader ==
    \/ \E rate \in SampleRates : start(TRUE, PcmFormat(rate))
    \/ \E vumeterTime \in ReaderVumeterTimes : setVumeterTime(vumeterTime)
    \/ \E burst \in Bursts : interpretInput(burst)
    \/ rebuild
    \/ vumeterDataCall
    \/ vumeterDataLock
    \/ vumeterDataReturn

SpecReader == Init /\ [][NextReader]_vars

\* both threads keep running: a handler that holds the lock finishes its rebuild,
\* a reader waiting for a free mutex gets it, a reader that holds it returns
FairReader ==
    /\ WF_vars(rebuild)
    /\ WF_vars(vumeterDataLock)
    /\ WF_vars(vumeterDataReturn)

SpecReaderFair == SpecReader /\ FairReader

(***************************************************************************)
(* parseChopperSignal on its own: a call with any signal, threshold and    *)
(* phase, on a Lockin2 that was just constructed.                          *)
(***************************************************************************)
InitAnalyzer ==
    /\ Constructed
    /\ parseSignal \in Signals
    /\ parseAvg \in Thresholds
    /\ parsePhase \in Phases
    /\ parseOut = <<>>
    /\ parseDone = FALSE

parseChopperSignalCall ==
    /\ ~parseDone
    /\ parseOut' = parseChopperSignal(parseSignal, parseAvg, parsePhase)
    /\ parseDone' = TRUE
    /\ UNCHANGED <<_audioInput, config, derived, window, _vumeterData, _vumeterMutex,
                   lastPair, producerLocals, reader, op, newValues, history,
                   parseSignal, parseAvg, parsePhase>>

NextAnalyzer == parseChopperSignalCall

SpecAnalyzer == InitAnalyzer /\ [][NextAnalyzer]_vars

(***************************************************************************)
(* Session state gating.                                                   *)
(***************************************************************************)
Active == _audioInput # 0

\* every member of the Lockin2 object
session == <<_audioInput, config, derived, window, _vumeterData, _vumeterMutex,
             lastPair>>

\* C1: while the session is active, a call of setOutputPeriod, setIntegrationTime
\* or setVumeterTime with any value leaves the stored output period, integration
\* time and monitor time, and every other member of the session, as they were.
C1_SettersRefusedWhileActive ==
    [][Active =>
          /\ \A v \in OutputPeriods : setOutputPeriod(v) => UNCHANGED session
          /\ \A v \in IntegrationTimes : setIntegrationTime(v) => UNCHANGED session
          /\ \A v \in VumeterTimes : setVumeterTime(v) => UNCHANGED session]_vars

\* a setter was called, and refused, in a session that has processed a burst
C1_Witness ==
    /\ Active
    /\ _data # <<>>
    /\ op = Called("setIntegrationTime", TRUE, "lockin is running")

\* C2 (as claimed): while the session is active, a call of setPhase leaves the
\* stored phase offset as it was.
C2_SetPhaseRefusedWhileActive ==
    [][Active => \A v \in Phases : setPhase(v) => _phase' = _phase]_vars

\* the configured format that passes all of start's checks
Supported(audioDeviceSupports, format) ==
    /\ format.valid
    /\ format.codec = "audio/pcm"
    /\ format.channelCount = 2
    /\ format.sampleType = "UnSignedInt"
    /\ format.sampleSize = 32
    /\ audioDeviceSupports

\* C3: a call of start while the session is active returns false and changes
\* nothing (active flag, configuration, derived sample counts, time cursor,
\* integration window); a call of start with a supported format on an inactive
\* session succeeds, so of two such calls in a row the second is the one refused.
C3_StartRefusedWhileActive ==
    [][\A d \in BOOLEAN, f \in Formats :
          start(d, f) =>
              /\ Active => ~op'.ret /\ UNCHANGED session
              /\ ~Active /\ Supported(d, f) => op'.ret /\ Active']_vars

\* start was refused in a session that has processed a burst
C3_Witness ==
    /\ Active
    /\ nCycles > 0
    /\ op = Called("start", FALSE, "lockin is already running, please stop is before start")

\* C4: a call of start on an inactive session with a format that is invalid,
\* that fails the acceptance predicate (2 channels, unsigned integer, 32 bits,
\* raw PCM) or that the device rejects returns false and leaves the session
\* inactive, with time cursor, derived sample counts and configuration as they
\* were; start returns true and activates the session only when all three pass.
C4_StartChecksFormat ==
    [][\A d \in BOOLEAN, f \in Formats :
          start(d, f) /\ ~Active =>
              IF Supported(d, f)
              THEN op'.ret /\ Active'
              ELSE ~op'.ret /\ ~Active' /\ UNCHANGED session]_vars

\* start was refused for its format, between two sessions
C4_Witness ==
    /\ ~Active
    /\ nSessions > 0
    /\ op = Called("start", FALSE, "format not supported for lockin2")

\* C5: a call of stop on an inactive session changes no state; a call of stop on
\* an active session makes it inactive, and from then on the setters store
\* their argument again.
C5_Stop ==
    [][/\ stop /\ ~Active => UNCHANGED session
       /\ stop /\ Active => ~Active'
       /\ ~Active =>
             /\ \A v \in OutputPeriods : setOutputPeriod(v) => _outputPeriod' = v
             /\ \A v \in IntegrationTimes : setIntegrationTime(v) => _integrationTime' = v
             /\ \A v \in VumeterTimes : setVumeterTime(v) => _vumeterTime' = v]_vars

\* after a session was stopped, a setter took effect and a further stop was a no-op
C5_Witness ==
    /\ ~Active
    /\ nSessions > 0
    /\ _sampleIntegration # (sampleRate * _integrationTime) \div Scale
    /\ op = Called("stop", TRUE, "lockin is not running")

(***************************************************************************)
(* Integration window.                                                     *)
(***************************************************************************)
\* a step that ends a run of interpretInput: the return at line 180, 222 or 249
RunEnds == pc' = "idle" /\ (pc = "rebuild" \/ nRuns' = nRuns + 1)

\* the run that ends read at least one sample pair (it did not return at line 180)
ReadSamples == op'.msg # "nothing new..."

\* C6: a run of the burst handler that ends with fewer than sampleIntegration
\* entries in the integration window emits no event, and a run that read
\* samples and ends with sampleIntegration entries in the window, the first
\* such run of a session included, emits one.
C6_ColdStartGating ==
    [][RunEnds =>
          /\ Len(_data') < _sampleIntegration => newValues' = <<>>
          /\ ReadSamples /\ Len(_data') >= _sampleIntegration => Len(newValues') = 1]_vars

\* in a first session, a run below the threshold emitted nothing and the next
\* run, which filled the window, emitted the first event
C6_Witness ==
    /\ nSessions = 1
    /\ nCycles = 2
    /\ nEvents = 1
    /\ pc = "idle"
    /\ Len(newValues) = 1
    /\ Len(_data) = _sampleIntegration

\* C7 (as claimed): the N-th event emitted since the last successful start
\* carries the time -integrationTime/2 + N * outputPeriod.
C7_TimeOfNthEvent ==
    [][nEvents' = nEvents + 1 =>
          newValues'[1].time = -(_integrationTime \div 2) + nEvents' * _outputPeriod]_vars

\* C7 (amended): an event carries the time -integrationTime/2 + K * outputPeriod,
\* K being the number of burst-handler runs since the last successful start,
\* the runs that emitted nothing included.
C7_TimeOfKthRun ==
    [][nEvents' = nEvents + 1 =>
          newValues'[1].time = -(_integrationTime \div 2) + nCycles' * _outputPeriod]_vars

\* an event emitted by the second run of a session whose first run emitted nothing
C7_Witness ==
    /\ Active
    /\ nCycles = 2
    /\ nEvents = 1
    /\ Len(newValues) = 1
    /\ newValues[1].time = -(_integrationTime \div 2) + 2 * _outputPeriod

\* C8 (as claimed): after every completed operation the integration window
\* holds at most sampleIntegration entries.
C8_WindowWithinCapacity ==
    (pc = "idle" /\ nSessions > 0) => Len(_data) <= _sampleIntegration

\* the sum of the k-th components of the pairs of data that valid flags
RECURSIVE SumValid(_, _, _)
SumValid(data, valid, k) ==
    IF data = <<>> THEN 0
    ELSE (IF Head(valid) THEN Head(data)[k] ELSE 0) + SumValid(Tail(data), Tail(valid), k)

NumValid(valid) == Len(SelectSeq(valid, LAMBDA b : b))

\* C9 (as claimed): the x (resp. y) of every emitted event is the sum of the x
\* (resp. y) of the window entries made from valid reference-analyzer outputs,
\* divided by their number, whatever the values of the entries.
C9_MeanOfValidEntries ==
    [][nEvents' = nEvents + 1 =>
          /\ newValues'[1].x = Divide(SumValid(_data', dataValid', 1), NumValid(dataValid'))
          /\ newValues'[1].y = Divide(SumValid(_data', dataValid', 2), NumValid(dataValid'))]_vars

\* C10 (as claimed): no emitted event carries an undefined x or y, and no
\* undefined value is stored as the last (x, y) pair.
C10_NoUndefinedAverage ==
    /\ ~_xValue.nan
    /\ ~_yValue.nan
    /\ \A i \in 1..Len(newValues) : ~newValues[i].x.nan /\ ~newValues[i].y.nan

(***************************************************************************)
(* Reference analyzer.                                                     *)
(***************************************************************************)
\* the rising edges of a signal: the indices where it goes from below-or-equal
\* to above the threshold (Sequences count from 1)
RisingEdges(sig, threshold) ==
    {j \in 2..Len(sig) : sig[j] > threshold /\ sig[j - 1] <= threshold}

\* the run of index p is closed: a rising edge at p or later ends it
InClosedRun(sig, threshold, p) == \E e \in RisingEdges(sig, threshold) : e >= p

\* the run of index p is the one the first rising edge closes
InFirstRun(sig, threshold, p) == \A e \in RisingEdges(sig, threshold) : e >= p

\* the first index of the run of index p, and the edge that closes it
RunStart(sig, threshold, p) ==
    LET before == {e \in RisingEdges(sig, threshold) : e < p}
    IN  IF before = {} THEN 1 ELSE 1 + CHOOSE e \in before : \A f \in before : f <= e

RunEnd(sig, threshold, p) ==
    LET after == {e \in RisingEdges(sig, threshold) : e >= p}
    IN  CHOOSE e \in after : \A f \in after : e <= f

\* 2*pi*i/L + phase
FullCycleAngle(i, L, phase) == (2 * Pi * i) \div L + phase

\* C14 (as claimed): in every closed run of length L other than the first, the
\* entry at offset i of the run is (sin, cos) of the angle 2*pi*i/L + phase.
C14_FullCycleAngles ==
    parseDone =>
        \A p \in 1..Len(parseSignal) :
            InClosedRun(parseSignal, parseAvg, p) /\ ~InFirstRun(parseSignal, parseAvg, p) =>
                LET first == RunStart(parseSignal, parseAvg, p)
                    L == RunEnd(parseSignal, parseAvg, p) - first + 1
                    angle == FullCycleAngle(p - first, L, parsePhase)
                IN  parseOut[p] = <<Sin(angle), Cos(angle)>>

\* the entry of out at index p is the marker (2.0, 2.0) that interpretInput ignores
Invalid(sinCos, p) == sinCos[p] = <<IgnoreSinCos, IgnoreSinCos>>

\* C15: for every signal that is not empty and every threshold, the output is
\* as long as the signal; the entries of the run the first rising edge closes
\* and the entries after the last rising edge are invalid, every entry of every
\* other closed run is valid (its sin is not the marker), and a signal without
\* rising edge gives an output that is invalid throughout.
C15_ValidityMarking ==
    parseDone =>
        /\ Len(parseOut) = Len(parseSignal)
        /\ \A p \in 1..Len(parseOut) :
               IF InClosedRun(parseSignal, parseAvg, p) /\ ~InFirstRun(parseSignal, parseAvg, p)
               THEN parseOut[p][1] # IgnoreSinCos
               ELSE Invalid(parseOut, p)

\* a signal with an invalid first run, a valid closed run of three samples and
\* an invalid tail
C15_Witness ==
    /\ parseDone
    /\ RisingEdges(parseSignal, parseAvg) = {2, 5}
    /\ Invalid(parseOut, 1)
    /\ Invalid(parseOut, Len(parseOut))
    /\ \E p \in 1..Len(parseOut) : ~Invalid(parseOut, p)

(***************************************************************************)
(* Integration window: eviction, cadence, sessions.                        *)
(***************************************************************************)
\* the demodulated samples a burst makes with the phase in force
BurstEntries(burst) ==
    LET left == [i \in 1..Len(burst) |-> ToReal(burst[i][1])]
        chopperSignal == [i \in 1..Len(burst) |-> burst[i][2]]
        avgRight == SumSeq(chopperSignal) \div Len(burst)
    IN  Demodulate(left, parseChopperSignal(chopperSignal, avgRight, _phase))

\* the n most recent entries of a list of at least n entries
MostRecent(list, n) == SubSeq(list, Len(list) - n + 1, Len(list))

\* C16: a run appends to the integration window, after the entries it holds,
\* one demodulated sample per sample pair of its burst, valid or not, in
\* arrival order; and at every emission the window is left holding exactly the
\* sampleIntegration most recent entries of the window so appended to, so that
\* only the oldest entries are ever removed.
C16_FifoEviction ==
    [][/\ pc = "idle" /\ pc' = "rebuild" =>
              /\ _data' = _data \o Demodulate(leftSignal', chopperSinCos')
              /\ Len(_data') = Len(_data) + Len(leftSignal')
       /\ pc = "rebuild" /\ nEvents' = nEvents + 1 =>
              _data' = MostRecent(_data, _sampleIntegration)
       /\ pc = "idle" /\ nEvents' = nEvents + 1 =>
              \E burst \in Bursts \ {<<>>} :
                  /\ interpretInput(burst)
                  /\ _data' = MostRecent(_data \o BurstEntries(burst), _sampleIntegration)]_vars

\* the first run of a first session read four sample pairs into a window of two:
\* the event was emitted on the two newest, the two valid ones
C16_Witness ==
    /\ nSessions = 1
    /\ nCycles = 1
    /\ pc = "idle"
    /\ _sampleIntegration = 2
    /\ Len(newValues) = 1
    /\ Len(_vumeterData) = 2
    /\ dataValid = <<TRUE, TRUE>>

\* C18: no run of the burst handler emits more than one event, and within a
\* session, once an event was emitted, every later run that reads at least one
\* sample pair emits exactly one.
C18_OneEventPerBurstOncePrimed ==
    [][/\ Len(newValues') <= 1
       /\ RunEnds /\ ReadSamples /\ nEvents >= 1 =>
              Len(newValues') = 1 /\ nEvents' = nEvents + 1]_vars

\* both runs of a session emitted an event
C18_Witness ==
    /\ Active
    /\ pc = "idle"
    /\ nCycles = 2
    /\ nEvents = 2
    /\ Len(newValues) = 1

\* C19 (as claimed): a call of start that succeeds leaves the integration
\* window empty.
C19_WindowEmptyAtStart ==
    [][~Active /\ Active' => _data' = <<>>]_vars

(***************************************************************************)
(* Monitor snapshot and its lock.                                          *)
(***************************************************************************)
\* C11: a run of the burst handler that reads no sample pair emits no event and
\* leaves the monitor snapshot, the integration window and the last (x, y) pair
\* as they were; a read returns the snapshot as it stands, so reads before and
\* after such a run return the same list.
C11_ZeroSampleRun ==
    [][/\ interpretInput(<<>>) =>
              /\ newValues' = <<>>
              /\ pc' = "idle"
              /\ UNCHANGED <<_vumeterData, _vumeterMutex, window, lastPair>>
       /\ vumeterDataReturn => readerRet' = _vumeterData]_vars

\* in a session with a snapshot and a window that are not empty, a run read
\* nothing, and the two reads made so far returned the snapshot still in place
C11_Witness ==
    /\ Active
    /\ op = Called("interpretInput", TRUE, "nothing new...")
    /\ _vumeterData # <<>>
    /\ _data # <<>>
    /\ nReads = 2
    /\ readerPc = "idle"
    /\ readerRet = _vumeterData

\* C12: a run of the burst handler that reads samples while a reader holds the
\* snapshot lock ends in the same step, without taking the lock and without
\* touching the snapshot or the reader; it reports the skip, appends its burst
\* to the integration window and, when the window is full, emits its event.
C12_ContentionSkip ==
    [][_vumeterMutex = "reader" =>
          \A burst \in Bursts \ {<<>>} :
              interpretInput(burst) =>
                  /\ pc' = "idle"
                  /\ UNCHANGED <<_vumeterData, _vumeterMutex, reader>>
                  /\ op' = Called("interpretInput", TRUE, "the view Mutex is locked")
                  /\ LET appended == _data \o BurstEntries(burst)
                     IN  IF Len(appended) < _sampleIntegration
                         THEN _data' = appended /\ newValues' = <<>>
                         ELSE /\ _data' = MostRecent(appended, _sampleIntegration)
                              /\ Len(newValues') = 1
                              /\ nEvents' = nEvents + 1]_vars

\* while a reader held the lock, a run skipped the rebuild, left the previous
\* snapshot in place and emitted its event
C12_Witness ==
    /\ readerPc = "copy"
    /\ op = Called("interpretInput", TRUE, "the view Mutex is locked")
    /\ _vumeterData # <<>>
    /\ Len(newValues) = 1

\* C13: a reader copies the snapshot only while no rebuild is in progress, the
\* snapshot does not change while the reader holds the lock, and the list
\* returned is the snapshot as it then stands: the one before or the one after
\* a rebuild, never the cleared or partly rebuilt list.
C13_SnapshotConsistency ==
    [][/\ readerPc = "copy" => pc # "rebuild" /\ UNCHANGED _vumeterData
       /\ vumeterDataReturn => readerRet' = _vumeterData]_vars

\* a first read returned a complete snapshot; a second one waits for the lock
\* while the handler, which has cleared the list, rebuilds it
C13_Witness ==
    /\ nReads = 2
    /\ readerPc = "lock"
    /\ pc = "rebuild"
    /\ _vumeterData = <<>>
    /\ readerRet # <<>>

\* the valid samples of a burst as (measurement, sin) pairs, in arrival order
RECURSIVE ValidSamples(_, _)
ValidSamples(left, sinCos) ==
    IF left = <<>> THEN <<>>
    ELSE LET n == Len(left)
             earlier == ValidSamples(SubSeq(left, 1, n - 1), SubSeq(sinCos, 1, n - 1))
         IN  IF sinCos[n][1] # IgnoreSinCos
             THEN Append(earlier, <<left[n], sinCos[n][1]>>)
             ELSE earlier

Min(a, b) == IF a < b THEN a ELSE b

\* C17: a rebuild that took the lock leaves as the snapshot the last
\* min(sampleVumeter, number of valid samples of the burst) valid samples of
\* that burst, as (measurement, sin) pairs in arrival order, and nothing else.
C17_SnapshotContent ==
    [][pc = "rebuild" /\ pc' = "idle" =>
          LET samples == ValidSamples(leftSignal, chopperSinCos)
          IN  _vumeterData' = MostRecent(samples, Min(_sampleVumeter, Len(samples)))]_vars

\* the first burst of a session had two valid samples and the snapshot, of
\* capacity one, holds the newer of them
C17_Witness ==
    /\ nSessions = 1
    /\ nCycles = 1
    /\ pc = "idle"
    /\ _sampleVumeter = 1
    /\ NumValid(dataValid) = 2
    /\ Len(_vumeterData) = 1
    /\ _vumeterData[1][2] # Sin(_phase)

\* C20: the producer holds the snapshot lock in the rebuild step only and a
\* reader while it copies only, so the lock is free whenever the handler or
\* vumeterData has returned; and when both threads keep running, every rebuild
\* ends and every call of vumeterData returns.
C20_LockDiscipline ==
    /\ [](_vumeterMutex = "producer" <=> pc = "rebuild")
    /\ [](_vumeterMutex = "reader" <=> readerPc = "copy")
    /\ (pc = "rebuild" ~> pc = "idle")
    /\ (readerPc # "idle" ~> readerPc = "idle")

\* a reader is blocked on the lock the producer holds
C20_Witness ==
    /\ readerPc = "lock"
    /\ _vumeterMutex = "producer"
    /\ nRuns = MaxRuns

====
